---- MODULE Spec2Model ----
(***************************************************************************)
(* Model of scripts/swift_api_requester.py: the identifier sanitizer, the  *)
(* HostPath.swift registry merge, the project.pbxproj manifest patch, the  *)
(* JSON schema inference and the orchestrating main().                     *)
(*                                                                         *)
(* Text is modelled as a sequence of one-character strings, so that the    *)
(* regular expressions and substring tests of the script are computed      *)
(* character by character.                                                 *)
(***************************************************************************)
EXTENDS Integers, Sequences, FiniteSets, TLC

VARIABLES
    input,        \* sanitizer: the raw string handed to the function
    fn,           \* sanitizer: the function last applied ("none" before)
    out,          \* sanitizer: the string it returned
    hostPathFile, \* HostPath.swift on disk: the registry document
    regLog,       \* registry: the merge calls made so far, with their results
    pbxprojFile,  \* project.pbxproj on disk: the manifest document
    pbxLog,       \* manifest: the update_pbxproj calls made so far
    data_payload, \* inference: the JSON value handed to build_response_models
    inferred,     \* inference: the outcome of the run, once it was made
    args,         \* main: the parsed command line
    disk0,        \* main: the files as they were when the run started
    artifacts,    \* main: the files of the Request and Model directories
    main          \* main: the position in main() and its local variables

sanVars == <<input, fn, out>>
regVars == <<hostPathFile, regLog>>
pbxVars == <<pbxprojFile, pbxLog>>
inferVars == <<data_payload, inferred>>
mainVars == <<args, disk0, artifacts, main>>

vars == <<input, fn, out, hostPathFile, regLog, pbxprojFile, pbxLog, data_payload, inferred,
          args, disk0, artifacts, main>>

-----------------------------------------------------------------------------
(* Bounds *)

\* longest raw string handed to the identifier functions
MaxLen == 3

\* number of registry merge calls made on one document
MaxMerges == 3

\* number of update_pbxproj calls made on one document
MaxPatches == 2

\* number of keys of the top-level JSON object, and of items of a JSON array
MaxFields == 2
MaxItems == 2

-----------------------------------------------------------------------------
(* Characters and strings *)

LowerCase ==
    <<"a","b","c","d","e","f","g","h","i","j","k","l","m",
      "n","o","p","q","r","s","t","u","v","w","x","y","z">>

UpperCase ==
    <<"A","B","C","D","E","F","G","H","I","J","K","L","M",
      "N","O","P","Q","R","S","T","U","V","W","X","Y","Z">>

Digits == {"0","1","2","3","4","5","6","7","8","9"}

RangeOf(s) == {s[i] : i \in 1..Len(s)}

IsLower(c) == c \in RangeOf(LowerCase)
IsUpper(c) == c \in RangeOf(UpperCase)
IsAlpha(c) == IsLower(c) \/ IsUpper(c)
IsDigit(c) == c \in Digits
IsAlnum(c) == IsAlpha(c) \/ IsDigit(c)

\* the class [A-Za-z0-9_]
IsWordChar(c) == IsAlnum(c) \/ c = "_"

\* str.upper() and str.lower() on one character
Upper(c) == IF IsLower(c) THEN UpperCase[CHOOSE i \in 1..26 : LowerCase[i] = c] ELSE c
Lower(c) == IF IsUpper(c) THEN LowerCase[CHOOSE i \in 1..26 : UpperCase[i] = c] ELSE c

\* all strings over alphabet A of length at most n
StringsUpTo(A, n) == UNION {[1..k -> A] : k \in 0..n}

\* F applied to the value v: a local name for a value that is computed once
Bind(v, F(_)) == F(v)

RECURSIVE Concat(_)
Concat(ss) == IF ss = <<>> THEN <<>> ELSE Head(ss) \o Concat(Tail(ss))

\* needle in hay (substring test)
Contains(hay, needle) ==
    \E i \in 0..(Len(hay) - Len(needle)) :
        \A j \in 1..Len(needle) : hay[i + j] = needle[j]

\* ^[A-Za-z_][A-Za-z0-9_]*$ without a trailing newline: a valid identifier
IsIdentifier(s) ==
    /\ Len(s) > 0
    /\ IsAlpha(s[1]) \/ s[1] = "_"
    /\ \A i \in 1..Len(s) : IsWordChar(s[i])

-----------------------------------------------------------------------------
(* Identifier sanitizer *)

sanitize_identifier(value) ==
    LET v == [i \in 1..Len(value) |-> IF IsWordChar(value[i]) THEN value[i] ELSE "_"]
    IN  IF Len(v) > 0 /\ IsDigit(v[1]) THEN <<"_">> \o v ELSE v

\* str.strip("/")
RECURSIVE StripLeft(_)
StripLeft(s) == IF s # <<>> /\ Head(s) = "/" THEN StripLeft(Tail(s)) ELSE s

RECURSIVE StripRight(_)
StripRight(s) ==
    IF s # <<>> /\ s[Len(s)] = "/" THEN StripRight(SubSeq(s, 1, Len(s) - 1)) ELSE s

StripSlash(s) == StripRight(StripLeft(s))

IsPathSep(c) == c \in {"/", "_", ".", "-"}

\* re.split(r"[/_.-]+", s): the pieces between maximal runs of separators
\* (empty pieces appear only at the two ends)
RECURSIVE SplitFrom(_, _, _)
SplitFrom(s, cur, inSep) ==
    IF s = <<>> THEN <<cur>>
    ELSE IF IsPathSep(Head(s))
         THEN IF inSep THEN SplitFrom(Tail(s), cur, TRUE)
                       ELSE <<cur>> \o SplitFrom(Tail(s), <<>>, TRUE)
         ELSE SplitFrom(Tail(s), Append(cur, Head(s)), FALSE)

SplitPath(s) == SplitFrom(s, <<>>, FALSE)

Capitalize(p) == IF p = <<>> THEN p ELSE <<Upper(p[1])>> \o Tail(p)

Str_Request == <<"R","e","q","u","e","s","t">>
Str_Type == <<"T","y","p","e">>

to_pascal(path) ==
    LET p == StripSlash(path)
        parts == SplitPath(p)
    IN  IF p = <<>> THEN Str_Request
        ELSE Concat([i \in 1..Len(parts) |-> Capitalize(parts[i])])

to_pascal_type(value) ==
    LET name0 == SelectSeq(to_pascal(value), IsAlnum)
        name1 == IF name0 = <<>> THEN Str_Type ELSE name0
    IN  IF IsDigit(name1[1]) THEN Str_Type \o name1 ELSE name1

to_lower_camel(value) ==
    IF value = <<>> THEN value ELSE <<Lower(value[1])>> \o Tail(value)

-----------------------------------------------------------------------------
(* Reserved words *)

SWIFT_KEYWORDS == {
    <<"a","s","s","o","c","i","a","t","e","d","t","y","p","e">>, <<"c","l","a","s","s">>,
    <<"d","e","i","n","i","t">>, <<"e","n","u","m">>, <<"e","x","t","e","n","s","i","o","n">>,
    <<"f","i","l","e","p","r","i","v","a","t","e">>, <<"f","u","n","c">>,
    <<"i","m","p","o","r","t">>, <<"i","n","i","t">>, <<"i","n","o","u","t">>,
    <<"i","n","t","e","r","n","a","l">>, <<"l","e","t">>, <<"o","p","e","n">>,
    <<"o","p","e","r","a","t","o","r">>, <<"p","r","i","v","a","t","e">>,
    <<"p","r","o","t","o","c","o","l">>, <<"p","u","b","l","i","c">>, <<"s","t","a","t","i","c">>,
    <<"s","t","r","u","c","t">>, <<"s","u","b","s","c","r","i","p","t">>,
    <<"t","y","p","e","a","l","i","a","s">>, <<"v","a","r">>, <<"b","r","e","a","k">>,
    <<"c","a","s","e">>, <<"c","o","n","t","i","n","u","e">>, <<"d","e","f","a","u","l","t">>,
    <<"d","e","f","e","r">>, <<"d","o">>, <<"e","l","s","e">>,
    <<"f","a","l","l","t","h","r","o","u","g","h">>, <<"f","o","r">>, <<"g","u","a","r","d">>,
    <<"i","f">>, <<"i","n">>, <<"r","e","p","e","a","t">>, <<"r","e","t","u","r","n">>,
    <<"s","w","i","t","c","h">>, <<"w","h","e","r","e">>, <<"w","h","i","l","e">>, <<"a","s">>,
    <<"A","n","y">>, <<"c","a","t","c","h">>, <<"f","a","l","s","e">>, <<"i","s">>,
    <<"n","i","l">>, <<"r","e","t","h","r","o","w","s">>, <<"s","u","p","e","r">>,
    <<"s","e","l","f">>, <<"S","e","l","f">>, <<"t","h","r","o","w">>, <<"t","h","r","o","w","s">>,
    <<"t","r","u","e">>, <<"t","r","y">>, <<"a","s","s","o","c","i","a","t","i","v","i","t","y">>,
    <<"c","o","n","v","e","n","i","e","n","c","e">>, <<"d","y","n","a","m","i","c">>,
    <<"d","i","d","S","e","t">>, <<"f","i","n","a","l">>, <<"g","e","t">>, <<"i","n","f","i","x">>,
    <<"i","n","d","i","r","e","c","t">>, <<"l","a","z","y">>, <<"l","e","f","t">>,
    <<"m","u","t","a","t","i","n","g">>, <<"n","o","n","e">>,
    <<"n","o","n","m","u","t","a","t","i","n","g">>, <<"o","p","t","i","o","n","a","l">>,
    <<"o","v","e","r","r","i","d","e">>, <<"p","o","s","t","f","i","x">>,
    <<"p","r","e","c","e","d","e","n","c","e">>, <<"p","r","e","f","i","x">>,
    <<"P","r","o","t","o","c","o","l">>, <<"r","e","q","u","i","r","e","d">>,
    <<"r","i","g","h","t">>, <<"s","e","t">>, <<"T","y","p","e">>, <<"u","n","o","w","n","e","d">>,
    <<"w","e","a","k">>, <<"w","i","l","l","S","e","t">>
}

-----------------------------------------------------------------------------
(* Registry document (HostPath.swift)                                      *)
(*                                                                         *)
(* The document is the text                                                *)
(*   extension Host {  <host lines>  }  extension Path {  <path lines>  }  *)
(*   struct HostPath ...                                                   *)
(* hostMarker / pathMarker say whether the marker pair around each block   *)
(* is present; hosts and paths are the declaration lines                   *)
(*   static let <name> = Host(rawValue: "<raw>")                           *)
(*   /// <summary>  static let <name> = Path(rawValue: "<raw>")            *)
(* in document order.  name and raw are arbitrary text: the script writes  *)
(* whatever name it derived.                                               *)

DigitSeq == <<"0","1","2","3","4","5","6","7","8","9">>

\* str(n) for n >= 0
RECURSIVE IntToStr(_)
IntToStr(n) ==
    IF n < 10 THEN <<DigitSeq[n + 1]>>
    ELSE IntToStr(n \div 10) \o <<DigitSeq[(n % 10) + 1]>>

\* str.split(".")
RECURSIVE SplitDotFrom(_, _)
SplitDotFrom(s, cur) ==
    IF s = <<>> THEN <<cur>>
    ELSE IF Head(s) = "."
         THEN <<cur>> \o SplitDotFrom(Tail(s), <<>>)
         ELSE SplitDotFrom(Tail(s), Append(cur, Head(s)))

SplitDot(s) == SplitDotFrom(s, <<>>)

normalize_domain(domain) ==
    Bind(SplitDot(domain), LAMBDA parts :
        IF Len(parts) < 3 THEN domain
        ELSE parts[1] \o <<".">> \o parts[Len(parts) - 1] \o <<".">> \o parts[Len(parts)])

\* \w+ : what the capture group of a declaration pattern accepts
IsWord(s) == Len(s) > 0 /\ \A i \in 1..Len(s) : IsWordChar(s[i])

\* [^"]+ : what the raw-value capture group accepts
IsRawValue(s) == Len(s) > 0 /\ \A i \in 1..Len(s) : s[i] # "\""

\* the declaration lines that the pattern  static let (\w+) = Wrapper(rawValue: "key")
\* matches, as indexes into lines
MatchingLines(lines, key) ==
    {i \in 1..Len(lines) : IsWord(lines[i].name) /\ lines[i].raw = key}

Min(S) == CHOOSE x \in S : \A y \in S : x <= y
Max(S) == CHOOSE x \in S : \A y \in S : x >= y

\* the dict name -> raw built by re.finditer: a later line overrides an
\* earlier one of the same name
parse_host_entries(content) ==
    Bind({i \in 1..Len(content.hosts) :
             IsWord(content.hosts[i].name) /\ IsRawValue(content.hosts[i].raw)},
         LAMBDA ok :
             [nm \in {content.hosts[i].name : i \in ok} |->
                 content.hosts[Max({i \in ok : content.hosts[i].name = nm})].raw])

Str_host == <<"h","o","s","t">>

build_unique_host_name(domain, existing) ==
    LET free(nm) == nm \notin DOMAIN existing \/ existing[nm] = domain
        \* the while loop stops at the first free index; one exists among
        \* 2 .. |existing| + 2
        last == Cardinality(DOMAIN existing) + 2
    IN  Bind(SplitDot(domain), LAMBDA parts :
        Bind(sanitize_identifier(parts[1]), LAMBDA base_name :
        Bind(IF Len(parts) > 1 THEN sanitize_identifier(parts[2]) ELSE Str_host,
             LAMBDA suffix_base :
        Bind(IF suffix_base # <<>> THEN base_name \o <<"_">> \o suffix_base
             ELSE base_name, LAMBDA candidate :
            IF free(base_name) THEN base_name
            ELSE IF free(candidate) THEN candidate
            ELSE Bind(Min({idx \in 2..last : free(candidate \o <<"_">> \o IntToStr(idx))}),
                      LAMBDA idx : candidate \o <<"_">> \o IntToStr(idx))))))

\* results of the merge functions: status "die" is sys.exit(1) via die()
Died == [status |-> "die"]

ensure_host_entry(content, domain) ==
    Bind(MatchingLines(content.hosts, domain), LAMBDA m :
        IF m # {}
        THEN [status |-> "ok", content |-> content,
              name |-> content.hosts[Min(m)].name, changed |-> FALSE]
        ELSE IF ~content.hostMarker THEN Died
        ELSE Bind(build_unique_host_name(domain, parse_host_entries(content)),
                  LAMBDA host_name :
                      [status |-> "ok",
                       content |-> [content EXCEPT
                           !.hosts = Append(@, [name |-> host_name, raw |-> domain])],
                       name |-> host_name, changed |-> TRUE]))

ensure_path_entry(content, path_value, summary, default_name) ==
    Bind(MatchingLines(content.paths, path_value), LAMBDA m :
        IF m # {}
        THEN [status |-> "ok", content |-> content,
              name |-> content.paths[Min(m)].name, changed |-> FALSE]
        ELSE IF ~content.pathMarker THEN Died
        ELSE [status |-> "ok",
              content |-> [content EXCEPT
                  !.paths = Append(@, [name |-> default_name, raw |-> path_value,
                                       summary |-> summary])],
              name |-> default_name, changed |-> TRUE])

\* the name main() hands to ensure_path_entry for a path
path_name_default(path_value) == to_lower_camel(to_pascal(path_value))

\* update_host_path: file is the document read from disk; the result carries
\* the document left on disk
update_host_path(file, path_value, summary, domain, write_changes) ==
    Bind(ensure_host_entry(file, normalize_domain(domain)), LAMBDA h :
        IF h.status = "die" THEN [status |-> "die", file |-> file]
        ELSE Bind(ensure_path_entry(h.content, path_value, summary,
                                    path_name_default(path_value)), LAMBDA p :
            IF p.status = "die" THEN [status |-> "die", file |-> file]
            ELSE [status |-> "ok",
                  file |-> IF write_changes /\ (h.changed \/ p.changed)
                           THEN p.content ELSE file,
                  host_name |-> h.name, path_name |-> p.name,
                  changed |-> h.changed \/ p.changed]))

-----------------------------------------------------------------------------
(* Manifest document (project.pbxproj)                                     *)
(*                                                                         *)
(* The document is modelled by its four line-oriented sections, each in    *)
(* document order:                                                         *)
(*   buildFiles  <id> /* <name> in Sources */ = {isa = PBXBuildFile;       *)
(*               fileRef = <ref> /* <name> */; };                          *)
(*   fileRefs    <id> /* <name> */ = {isa = PBXFileReference;              *)
(*               lastKnownFileType = sourcecode.swift; path = <name>; ...  *)
(*   groups      <id> /* <name> */ = { isa = PBXGroup; children = ( ... ); *)
(*               each child a line  <id> /* <name> */,                     *)
(*   sources     <id> /* <name> in Sources */,                             *)
(* Identifiers are opaque tokens; names are text.                          *)

HostPathSwift == <<"H","o","s","t","P","a","t","h",".","s","w","i","f","t">>
Str_Networking == <<"N","e","t","w","o","r","k","i","n","g">>
Str_Model == <<"M","o","d","e","l">>
Str_swift == <<".","s","w","i","f","t">>
Str_sourcecode_swift == <<"s","o","u","r","c","e","c","o","d","e",".","s","w","i","f","t">>

\* the permanent entries of HostPath.swift that serve as anchors
HostPathBuildId == "2ABA3CE027EDB030006B1E7E"
HostPathFileRefId == "2ABA3CDF27EDB030006B1E7E"

hostpath_build_line ==
    [id |-> HostPathBuildId, name |-> HostPathSwift, ref |-> HostPathFileRefId]
hostpath_file_ref_line == [id |-> HostPathFileRefId, name |-> HostPathSwift]
sources_insert_needle == [id |-> HostPathBuildId, name |-> HostPathSwift]

\* every piece of text of the document that can hold a file name: the names
\* in the four sections and the fixed word sourcecode.swift of each
\* file-reference line
ManifestWords(content) ==
    {l.name : l \in RangeOf(content.buildFiles)}
    \cup {l.name : l \in RangeOf(content.fileRefs)}
    \cup {Str_sourcecode_swift : l \in RangeOf(content.fileRefs)}
    \cup {g.name : g \in RangeOf(content.groups)}
    \cup UNION {{c.name : c \in RangeOf(g.children)} : g \in RangeOf(content.groups)}
    \cup {l.name : l \in RangeOf(content.sources)}

\* the early return left out: nothing is ever taken as already patched
InManifest_never(content, class_filename) == FALSE

\* the presence test looking at the group children lists only
InManifest_childrenOnly(content, class_filename) ==
    \E g \in RangeOf(content.groups) :
        \E c \in RangeOf(g.children) : Contains(c.name, class_filename)

\* class_filename in content
InManifest(content, class_filename) ==
    \E w \in ManifestWords(content) : Contains(w, class_filename)

\* s with x inserted after position i
InsertAt(s, i, x) == SubSeq(s, 1, i) \o <<x>> \o SubSeq(s, i + 1, Len(s))

\* insert_after_line putting the new line at the end of the section
insert_after_line_appending(lines, needle, new_line) ==
    IF new_line \in RangeOf(lines) THEN [status |-> "ok", lines |-> lines]
    ELSE IF needle \notin RangeOf(lines) THEN Died
    ELSE [status |-> "ok", lines |-> Append(lines, new_line)]

\* insert_after_line on one section: lines is the section, needle the anchor
\* line, new_line the line to add.  The result is the new section, or Died.
insert_after_line(lines, needle, new_line) ==
    IF new_line \in RangeOf(lines) THEN [status |-> "ok", lines |-> lines]
    ELSE Bind({i \in 1..Len(lines) : lines[i] = needle}, LAMBDA at :
             IF at = {} THEN Died
             ELSE [status |-> "ok", lines |-> InsertAt(lines, Min(at), new_line)])

\* the pattern  children = (\n ... \n\s*);  needs at least one child line: a
\* group without a children list and a group with an empty one are both
\* children = <<>>, and for both the list is not found
HasChildrenList(g) == Len(g.children) > 0

find_networking_child_group_id(content, child_name) ==
    LET hit(g) ==
            /\ g.name = Str_Networking
            /\ \E c \in RangeOf(g.children) : Contains(c.name, HostPathSwift)
            /\ HasChildrenList(g)
            /\ \E c \in RangeOf(g.children) : c.name = child_name
    IN  Bind({i \in 1..Len(content.groups) : hit(content.groups[i])}, LAMBDA hits :
            IF hits = {} THEN ""
            ELSE Bind(content.groups[Min(hits)], LAMBDA g :
                     g.children[Min({j \in 1..Len(g.children) :
                                        g.children[j].name = child_name})].id))

\* find_group_block: the index of the first block  <group_id> /* <name> */ = {
find_group_block(content, group_id, name) ==
    {i \in 1..Len(content.groups) :
        content.groups[i].id = group_id /\ content.groups[i].name = name}

update_group_children(content, group_id, group_name, file_ref_id, class_filename) ==
    Bind(find_group_block(content, group_id, group_name), LAMBDA blocks :
        IF blocks = {} THEN Died
        ELSE Bind(Min(blocks), LAMBDA b :
            IF ~HasChildrenList(content.groups[b]) THEN Died
            ELSE IF \E c \in RangeOf(content.groups[b].children) :
                        Contains(c.name, class_filename)
                 THEN [status |-> "ok", content |-> content]
            ELSE [status |-> "ok",
                  content |-> [content EXCEPT !.groups[b].children =
                                  Append(@, [id |-> file_ref_id,
                                             name |-> class_filename])]]))

\* the patched copy written back before the failing step is reached
pbx_die_flush(file, content, warned) ==
    [status |-> "die", file |-> content, warned |-> warned]

\* die() inside update_pbxproj: the process exits before write_text, so the
\* disk keeps the document read at entry; content is the patched copy in memory
pbx_die(file, content, warned) == [status |-> "die", file |-> file, warned |-> warned]

\* the policy flag ignored: a missing group is always fatal
missing_group_is_fatal_always(require_group) == TRUE

\* elif require_group: die(...) else: warn(...)
missing_group_is_fatal(require_group) == require_group

\* update_pbxproj: file is the document read from disk, file_ref_id and
\* build_file_id the two uuid4 tokens.  The result carries the document left
\* on disk; status "noop" is the early return, warned the warn() call.
update_pbxproj(file, class_filename, group_name, require_group, file_ref_id, build_file_id) ==
    LET build_line == [id |-> build_file_id, name |-> class_filename, ref |-> file_ref_id]
        file_ref_line == [id |-> file_ref_id, name |-> class_filename]
        sources_line == [id |-> build_file_id, name |-> class_filename]
    IN  IF InManifest(file, class_filename)
        THEN [status |-> "noop", file |-> file, warned |-> FALSE]
        ELSE
        Bind(insert_after_line(file.buildFiles, hostpath_build_line, build_line),
             LAMBDA s1 :
        IF s1.status = "die" THEN pbx_die(file, file, FALSE)
        ELSE
        Bind([file EXCEPT !.buildFiles = s1.lines], LAMBDA c1 :
        Bind(insert_after_line(c1.fileRefs, hostpath_file_ref_line, file_ref_line),
             LAMBDA s2 :
        IF s2.status = "die" THEN pbx_die(file, c1, FALSE)
        ELSE
        Bind([c1 EXCEPT !.fileRefs = s2.lines], LAMBDA c2 :
        Bind(find_networking_child_group_id(c2, group_name), LAMBDA target_group_id :
        Bind(IF target_group_id # ""
             THEN update_group_children(c2, target_group_id, group_name, file_ref_id,
                                        class_filename)
             ELSE [status |-> "ok", content |-> c2], LAMBDA s3 :
        IF s3.status = "die" THEN pbx_die(file, c2, FALSE)
        ELSE IF target_group_id = "" /\ missing_group_is_fatal(require_group)
             THEN pbx_die(file, c2, FALSE)
        ELSE
        Bind(insert_after_line(s3.content.sources, sources_insert_needle, sources_line),
             LAMBDA s4 :
        IF s4.status = "die" THEN pbx_die(file, s3.content, target_group_id = "")
        ELSE [status |-> "ok", file |-> [s3.content EXCEPT !.sources = s4.lines],
              warned |-> (target_group_id = "")])))))))

-----------------------------------------------------------------------------
(* Schema inference                                                        *)
(*                                                                         *)
(* A JSON value is a record with a tag t:                                  *)
(*   [t |-> "null"], "bool", "int", "float", "str"                         *)
(*   [t |-> "list", items |-> <<value, ...>>]                              *)
(*   [t |-> "dict", kv |-> << <<key, value>>, ... >>]  keys distinct, in   *)
(*                                                     source order        *)
(* Swift types and record names are text.  The state of one run is         *)
(*   [ok, structs, used, warnings]: ok is FALSE once die() was called,     *)
(*   structs the definitions appended so far, used the set of names of     *)
(*   unique_struct_name, warnings the number of warn() calls.              *)

Str_Bool == <<"B","o","o","l">>
Str_Int == <<"I","n","t">>
Str_Double == <<"D","o","u","b","l","e">>
Str_String == <<"S","t","r","i","n","g">>
Str_Item == <<"I","t","e","m">>
Str_items == <<"i","t","e","m","s">>
Str_value == <<"v","a","l","u","e">>

\* the backtick character (which a string of this language cannot hold)
Backtick == "BACKTICK"

\* IDENTIFIER_PATTERN.match(name): $ also matches before a final newline
MatchesIdentifierPattern(name) ==
    \/ IsIdentifier(name)
    \/ /\ Len(name) > 1
       /\ name[Len(name)] = "\n"
       /\ IsIdentifier(SubSeq(name, 1, Len(name) - 1))

\* a field name that fails the check is rewritten instead of refused
format_property_name_sanitizing(name) ==
    IF MatchesIdentifierPattern(name)
    THEN [status |-> "ok",
          name |-> IF name \in SWIFT_KEYWORDS THEN <<Backtick>> \o name \o <<Backtick>> ELSE name]
    ELSE [status |-> "ok", name |-> sanitize_identifier(name)]

format_property_name(name) ==
    IF MatchesIdentifierPattern(name)
    THEN [status |-> "ok",
          name |-> IF name \in SWIFT_KEYWORDS THEN <<Backtick>> \o name \o <<Backtick>> ELSE name]
    ELSE Died

\* unique_struct_name: the name and the grown set
\* unique_struct_name without the membership test
unique_struct_name_unchecked(base, used) ==
    [name |-> base, used |-> used \cup {base}]

unique_struct_name(base, used) ==
    IF base \notin used THEN [name |-> base, used |-> used \cup {base}]
    ELSE Bind(Min({k \in 2..(Cardinality(used) + 2) : base \o IntToStr(k) \notin used}),
              LAMBDA idx : [name |-> base \o IntToStr(idx),
                            used |-> used \cup {base \o IntToStr(idx)}])

\* build_struct_definition: the let lines, and the CodingKeys cases when
\* some property name differs from its JSON key (raw is <<>> for a case
\* without "= ...")
build_struct_definition(struct_name, fields) ==
    LET needs_keys == \E i \in 1..Len(fields) : fields[i].prop # fields[i].original
    IN  [kind |-> "struct", name |-> struct_name,
         lets |-> [i \in 1..Len(fields) |->
                      [prop |-> fields[i].prop, type |-> fields[i].type]],
         codingKeys |->
             IF needs_keys
             THEN [i \in 1..Len(fields) |->
                      [prop |-> fields[i].prop,
                       explicit |-> fields[i].prop # fields[i].original,
                       raw |-> IF fields[i].prop = fields[i].original THEN <<>>
                               ELSE fields[i].original]]
             ELSE <<>>]

build_single_value_struct(struct_name, prop_name, swift_type) ==
    [kind |-> "single", name |-> struct_name, prop |-> prop_name, type |-> swift_type]

\* the state of one run of build_response_models: the structs list, the used
\* set, the warnings printed, and (a history of the run) each call of
\* unique_struct_name with the used set it found
NewRun == [ok |-> TRUE, structs |-> <<>>, used |-> {}, warnings |-> 0,
           allocated |-> <<>>]

\* the run after unique_struct_name(base, used) returned u
Allocated(st, base, u) ==
    [st EXCEPT !.used = u.used,
               !.allocated = Append(@, [base |-> base, name |-> u.name,
                                        before |-> st.used])]

Warn(st) == [st EXCEPT !.warnings = @ + 1]

\* non_null[0] taken without the filter on None
FirstNonNull_unfiltered(values) ==
    IF values = <<>> THEN [t |-> "none"] ELSE values[1]

FirstNonNull(values) ==
    Bind(SelectSeq(values, LAMBDA v : v.t # "null"),
         LAMBDA nn : IF nn = <<>> THEN [t |-> "none"] ELSE nn[1])

\* the type of a scalar JSON value; String with a warning for null
ScalarType(v, st) ==
    CASE v.t = "bool" -> [type |-> Str_Bool, st |-> st]
      [] v.t = "int" -> [type |-> Str_Int, st |-> st]
      [] v.t = "float" -> [type |-> Str_Double, st |-> st]
      [] v.t = "str" -> [type |-> Str_String, st |-> st]
      [] OTHER -> [type |-> Str_String, st |-> Warn(st)]

RECURSIVE infer_json_type(_, _, _, _)
RECURSIVE infer_list_element_type(_, _, _, _)
RECURSIVE build_struct_from_json(_, _, _)
RECURSIVE build_fields(_, _, _, _)

\* the struct of a nested object: its unique name, then its definition
nested_struct(child_base, value, st) ==
    Bind(unique_struct_name(child_base, st.used), LAMBDA u :
        [type |-> u.name,
         st |-> build_struct_from_json(u.name, value, Allocated(st, child_base, u))])

infer_json_type(value, parent_name, key, st) ==
    CASE value.t = "dict" ->
            nested_struct(parent_name \o to_pascal_type(key), value, st)
      [] value.t = "list" ->
            Bind(infer_list_element_type(value.items, parent_name, key, st),
                 LAMBDA r : [type |-> <<"[">> \o r.type \o <<"]">>, st |-> r.st])
      [] OTHER -> ScalarType(value, st)

infer_list_element_type(values, parent_name, key, st) ==
    Bind(FirstNonNull(values), LAMBDA first :
        CASE first.t = "none" -> [type |-> Str_String, st |-> Warn(st)]
          [] first.t = "dict" ->
                nested_struct(parent_name \o to_pascal_type(key) \o Str_Item, first, st)
          [] first.t = "list" ->
                Bind(infer_list_element_type(first.items, parent_name,
                                             key \o Str_Item, st),
                     LAMBDA r : [type |-> <<"[">> \o r.type \o <<"]">>, st |-> r.st])
          [] OTHER -> ScalarType(first, st))

\* the for loop of build_struct_from_json over the items not yet visited
build_fields(kv, struct_name, fields, st) ==
    IF kv = <<>> THEN [fields |-> fields, st |-> st]
    ELSE Bind(format_property_name(kv[1][1]), LAMBDA prop_name :
             IF prop_name.status = "die"
             THEN [fields |-> fields, st |-> [st EXCEPT !.ok = FALSE]]
             ELSE Bind(infer_json_type(kv[1][2], struct_name, kv[1][1], st), LAMBDA r :
                 IF ~r.st.ok THEN [fields |-> fields, st |-> r.st]
                 ELSE build_fields(Tail(kv), struct_name,
                          Append(fields, [prop |-> prop_name.name, type |-> r.type,
                                          original |-> kv[1][1]]),
                          r.st)))

build_struct_from_json(struct_name, payload, st) ==
    Bind(build_fields(payload.kv, struct_name, <<>>, st), LAMBDA r :
        IF ~r.st.ok THEN r.st
        ELSE [r.st EXCEPT !.structs =
                 Append(@, build_struct_definition(struct_name, r.fields))])

\* the loop over response_fields when no payload is given
RECURSIVE build_declared_fields(_, _)
build_declared_fields(response_fields, fields) ==
    IF response_fields = <<>> THEN [status |-> "ok", fields |-> fields]
    ELSE Bind(format_property_name(response_fields[1].name), LAMBDA prop_name :
             IF prop_name.status = "die" THEN Died
             ELSE build_declared_fields(Tail(response_fields),
                      Append(fields, [prop |-> prop_name.name,
                                      type |-> response_fields[1].type,
                                      original |-> response_fields[1].name])))

\* build_response_models: response_payload is [t |-> "none"] for None.  The
\* result is the run state; its structs joined are the returned source.
build_response_models(base_model_name, response_payload, response_fields) ==
    IF response_payload.t = "none" /\ response_fields = <<>> THEN NewRun
    ELSE IF response_payload.t = "none"
    THEN Bind(build_declared_fields(response_fields, <<>>), LAMBDA declared :
             IF declared.status = "die" THEN [NewRun EXCEPT !.ok = FALSE]
             ELSE [NewRun EXCEPT !.structs =
                      <<build_struct_definition(base_model_name, declared.fields)>>])
    ELSE IF response_payload.t = "list"
    THEN Bind(infer_list_element_type(response_payload.items, base_model_name,
                                      Str_items, NewRun), LAMBDA asList :
             IF ~asList.st.ok THEN asList.st
             ELSE Bind(unique_struct_name(base_model_name, asList.st.used),
                       LAMBDA listRoot :
                 [Allocated(asList.st, base_model_name, listRoot) EXCEPT
                     !.structs = Append(@, build_single_value_struct(listRoot.name,
                                     Str_items, <<"[">> \o asList.type \o <<"]">>))]))
    ELSE Bind(unique_struct_name(base_model_name, NewRun.used), LAMBDA root :
             IF response_payload.t = "dict"
             THEN build_struct_from_json(root.name, response_payload,
                                         Allocated(NewRun, base_model_name, root))
             ELSE Bind(ScalarType(response_payload, NewRun), LAMBDA scalar :
                 [Allocated(scalar.st, base_model_name, root) EXCEPT
                     !.structs = <<build_single_value_struct(root.name, Str_value,
                                                              scalar.type)>>]))

\* extract_data_payload: the value under "data", or [t |-> "none"] (has_data False)
Str_data == <<"d","a","t","a">>

extract_data_payload(response_payload) ==
    LET hits == IF response_payload.t = "dict"
                THEN {i \in 1..Len(response_payload.kv) :
                         response_payload.kv[i][1] = Str_data}
                ELSE {}
    IN  IF hits = {} THEN [t |-> "none"]
        ELSE IF response_payload.kv[Min(hits)][2].t = "null" THEN [t |-> "none"]
        ELSE response_payload.kv[Min(hits)][2]

-----------------------------------------------------------------------------
(* Parameter and response annotations *)

PARAM_TYPE_MAP == <<
    <<<<"s","t","r","i","n","g">>, <<"S","t","r","i","n","g">>>>,
    <<<<"i","n","t">>, <<"I","n","t">>>>,
    <<<<"i","n","t","e","g","e","r">>, <<"I","n","t">>>>,
    <<<<"l","o","n","g">>, <<"I","n","t","6","4">>>>,
    <<<<"f","l","o","a","t">>, <<"D","o","u","b","l","e">>>>,
    <<<<"d","o","u","b","l","e">>, <<"D","o","u","b","l","e">>>>,
    <<<<"n","u","m","b","e","r">>, <<"D","o","u","b","l","e">>>>,
    <<<<"b","o","o","l">>, <<"B","o","o","l">>>>,
    <<<<"b","o","o","l","e","a","n">>, <<"B","o","o","l">>>>,
    <<<<"a","r","r","a","y">>, <<"[","A","n","y","]">>>>,
    <<<<"o","b","j","e","c","t">>, <<"[","S","t","r","i","n","g",":"," ","A","n","y","]">>>>,
    <<<<"m","a","p">>, <<"[","S","t","r","i","n","g",":"," ","A","n","y","]">>>>,
    <<<<"d","i","c","t">>, <<"[","S","t","r","i","n","g",":"," ","A","n","y","]">>>>
>>

RESPONSE_TYPE_MAP == <<
    <<<<"s","t","r","i","n","g">>, <<"S","t","r","i","n","g">>>>,
    <<<<"i","n","t">>, <<"I","n","t">>>>,
    <<<<"i","n","t","e","g","e","r">>, <<"I","n","t">>>>,
    <<<<"l","o","n","g">>, <<"I","n","t","6","4">>>>,
    <<<<"f","l","o","a","t">>, <<"D","o","u","b","l","e">>>>,
    <<<<"d","o","u","b","l","e">>, <<"D","o","u","b","l","e">>>>,
    <<<<"n","u","m","b","e","r">>, <<"D","o","u","b","l","e">>>>,
    <<<<"b","o","o","l">>, <<"B","o","o","l">>>>,
    <<<<"b","o","o","l","e","a","n">>, <<"B","o","o","l">>>>
>>

\* dict.get(key): <<>> stands for None (no value of the tables is empty)
DictGet(map, key) ==
    Bind({i \in 1..Len(map) : map[i][1] = key},
         LAMBDA hits : IF hits = {} THEN <<>> ELSE map[Min(hits)][2])

\* str.strip() and str.lower(), the white space being blanks
RECURSIVE LStrip(_)
LStrip(s) == IF s # <<>> /\ Head(s) = " " THEN LStrip(Tail(s)) ELSE s

RECURSIVE RStrip(_)
RStrip(s) == IF s # <<>> /\ s[Len(s)] = " " THEN RStrip(SubSeq(s, 1, Len(s) - 1)) ELSE s

Strip(s) == RStrip(LStrip(s))

LowerStr(s) == [i \in 1..Len(s) |-> Lower(s[i])]
UpperStr(s) == [i \in 1..Len(s) |-> Upper(s[i])]

StartsWith(s, prefix) ==
    Len(s) >= Len(prefix) /\ SubSeq(s, 1, Len(prefix)) = prefix
EndsWith(s, suffix) ==
    Len(s) >= Len(suffix) /\ SubSeq(s, Len(s) - Len(suffix) + 1, Len(s)) = suffix

\* item.split(":", 1): the text before and after the first colon
FirstColon(item) == Min({i \in 1..Len(item) : item[i] = ":"})
BeforeColon(item) == SubSeq(item, 1, FirstColon(item) - 1)
AfterColon(item) == SubSeq(item, FirstColon(item) + 1, Len(item))
HasColon(item) == \E i \in 1..Len(item) : item[i] = ":"

map_param_type(raw_type) ==
    Bind(DictGet(PARAM_TYPE_MAP, LowerStr(Strip(raw_type))),
         LAMBDA found : IF found = <<>> THEN Str_String ELSE found)

map_response_scalar_type(raw_type) ==
    Bind(DictGet(RESPONSE_TYPE_MAP, LowerStr(Strip(raw_type))),
         LAMBDA found : IF found = <<>> THEN Str_String ELSE found)

ListOf(swift_type) == <<"[">> \o swift_type \o <<"]">>

\* the element annotation of a list annotation  T[] , array<T> , [T] , the
\* three forms tried in this order
ListElement(raw) ==
    IF EndsWith(raw, <<"[","]">>)
    THEN [list |-> TRUE, inner |-> SubSeq(raw, 1, Len(raw) - 2)]
    ELSE IF StartsWith(raw, <<"a","r","r","a","y","<">>) /\ EndsWith(raw, <<">">>)
    THEN [list |-> TRUE, inner |-> SubSeq(raw, 7, Len(raw) - 1)]
    ELSE IF StartsWith(raw, <<"[">>) /\ EndsWith(raw, <<"]">>)
    THEN [list |-> TRUE, inner |-> SubSeq(raw, 2, Len(raw) - 1)]
    ELSE [list |-> FALSE, inner |-> raw]

map_response_type(raw_type) ==
    Bind(LowerStr(Strip(raw_type)), LAMBDA raw :
    Bind(ListElement(raw), LAMBDA el :
        IF ~el.list /\ raw \in {<<"a","r","r","a","y">>, <<"l","i","s","t">>} THEN Died
        ELSE IF ~el.list /\ raw \in {<<"o","b","j","e","c","t">>, <<"m","a","p">>,
                                     <<"d","i","c","t">>} THEN Died
        ELSE Bind(map_response_scalar_type(el.inner), LAMBDA scalar :
                 [status |-> "ok",
                  type |-> IF el.list THEN ListOf(scalar) ELSE scalar])))

\* parse_params on the items of param_str.split(",")
RECURSIVE parse_params(_)
parse_params(items) ==
    IF items = <<>> THEN [status |-> "ok", params |-> <<>>]
    ELSE Bind(Strip(Head(items)), LAMBDA item :
         Bind(parse_params(Tail(items)), LAMBDA rest :
             IF item = <<>> THEN rest
             ELSE IF ~HasColon(item) THEN Died
             ELSE IF rest.status = "die" THEN Died
             ELSE [status |-> "ok",
                   params |-> <<[name |-> Strip(BeforeColon(item)),
                                 type |-> map_param_type(AfterColon(item))]>>
                              \o rest.params]))

\* parse_response_fields on the items of response_str.split(",")
RECURSIVE parse_response_fields(_)
parse_response_fields(items) ==
    IF items = <<>> THEN [status |-> "ok", fields |-> <<>>]
    ELSE Bind(Strip(Head(items)), LAMBDA item :
         Bind(parse_response_fields(Tail(items)), LAMBDA rest :
             IF item = <<>> THEN rest
             ELSE IF ~HasColon(item) THEN Died
             ELSE Bind(map_response_type(AfterColon(item)), LAMBDA swift_type :
                 IF swift_type.status = "die" THEN Died
                 ELSE IF rest.status = "die" THEN Died
                 ELSE [status |-> "ok",
                       fields |-> <<[name |-> Strip(BeforeColon(item)),
                                     type |-> swift_type.type]>> \o rest.fields])))

\* build_request_method: the call line chosen for the method, or die
build_request_method(class_name, params, method) ==
    Bind(UpperStr(method), LAMBDA m :
        IF m = <<"G","E","T">> THEN [status |-> "ok", call |-> "getRequestInfo"]
        ELSE IF m = <<"P","O","S","T">> THEN [status |-> "ok", call |-> "postJSONRequestInfo"]
        ELSE Died)

\* build_request_class: the declarations the request source is assembled from
build_request_class(class_name, host_name, path_name, params) ==
    [class_name |-> class_name, host |-> host_name, path |-> path_name,
     vars |-> params]

-----------------------------------------------------------------------------
(* Inputs and initial documents of the specifications *)

SanAlphabet == {"a", "u", "B", "1", "_", "/", ".", "-", "{", " "}

SanInputs == StringsUpTo(SanAlphabet, MaxLen)

S_api == <<"a","p","i">>

\* domains, as update_host_path hands them to ensure_host_entry
D_api_x_com == <<"a","p","i",".","x",".","c","o","m">>
D_api_y_com == <<"a","p","i",".","y",".","c","o","m">>
D_api_x_org == <<"a","p","i",".","x",".","o","r","g">>
D_dot_x_com == <<".","x",".","c","o","m">>
D_api_v_x_com == <<"a","p","i",".","v",".","x",".","c","o","m">>

Domains == {D_api_x_com, D_api_y_com, D_api_x_org, D_dot_x_com}

\* domains as given on the command line
ServerDomains == Domains \cup {D_api_v_x_com}

\* domains as callers hand them to update_host_path: two, three and four
\* labels, pairs with one normalized form, and an empty first label
D_x_com == <<"x",".","c","o","m">>
D_api_w_x_com == <<"a","p","i",".","w",".","x",".","c","o","m">>
D_dot_v_x_com == <<".","v",".","x",".","c","o","m">>

RawDomains ==
    {D_x_com, D_api_x_com, D_api_v_x_com, D_api_w_x_com, D_dot_x_com, D_dot_v_x_com}

P_user_info == <<"/","u","s","e","r","/","i","n","f","o">>
P_user__info == <<"/","u","s","e","r","_","i","n","f","o">>
P_user_id == <<"/","u","s","e","r","/","{","i","d","}">>
P_login == <<"/","l","o","g","i","n">>

Paths == {P_user_info, P_user__info, P_user_id, P_login}

Summaries == {<<"s">>}

EmptyRegistry ==
    [hostMarker |-> TRUE, pathMarker |-> TRUE, hosts |-> <<>>, paths |-> <<>>]

\* a hand-authored document that already binds one host and one path
AuthoredRegistry ==
    [hostMarker |-> TRUE, pathMarker |-> TRUE,
     hosts |-> <<[name |-> S_api, raw |-> D_api_x_com]>>,
     paths |-> <<[name |-> <<"l","o","g","i","n">>, raw |-> P_login,
                  summary |-> <<"s">>]>>]

\* the documents a run can find on disk: with the scaffold, or with one of
\* the marker pairs damaged
InitialRegistries ==
    {[r EXCEPT !.hostMarker = hm, !.pathMarker = pm] :
        r \in {EmptyRegistry, AuthoredRegistry}, hm \in BOOLEAN, pm \in BOOLEAN}

HasScaffold(content) == content.hostMarker /\ content.pathMarker

Str_ARequest_swift == <<"A","R","e","q","u","e","s","t",".","s","w","i","f","t">>
Str_Request_swift == <<"R","e","q","u","e","s","t",".","s","w","i","f","t">>
Str_AModel_swift == <<"A","M","o","d","e","l",".","s","w","i","f","t">>
Str_BRequest_swift == <<"B","R","e","q","u","e","s","t",".","s","w","i","f","t">>
Str_BModel_swift == <<"B","M","o","d","e","l",".","s","w","i","f","t">>

NetworkingGroupId == "AAAAAAAAAAAAAAAAAAAAAAA0"
RequestGroupId == "AAAAAAAAAAAAAAAAAAAAAAA1"
ModelGroupId == "AAAAAAAAAAAAAAAAAAAAAAA2"

\* a project that already holds BRequest.swift and BModel.swift
GoodManifest ==
    [buildFiles |-> <<hostpath_build_line,
                      [id |-> "BBBBBBBBBBBBBBBBBBBBBBB1", name |-> Str_BRequest_swift,
                       ref |-> "BBBBBBBBBBBBBBBBBBBBBBB2"],
                      [id |-> "BBBBBBBBBBBBBBBBBBBBBBB3", name |-> Str_BModel_swift,
                       ref |-> "BBBBBBBBBBBBBBBBBBBBBBB4"]>>,
     fileRefs |-> <<hostpath_file_ref_line,
                    [id |-> "BBBBBBBBBBBBBBBBBBBBBBB2", name |-> Str_BRequest_swift],
                    [id |-> "BBBBBBBBBBBBBBBBBBBBBBB4", name |-> Str_BModel_swift]>>,
     groups |-> <<[id |-> NetworkingGroupId, name |-> Str_Networking,
                   children |-> <<[id |-> HostPathFileRefId, name |-> HostPathSwift],
                                  [id |-> RequestGroupId, name |-> Str_Request],
                                  [id |-> ModelGroupId, name |-> Str_Model]>>],
                  [id |-> RequestGroupId, name |-> Str_Request,
                   children |-> <<[id |-> "BBBBBBBBBBBBBBBBBBBBBBB2",
                                   name |-> Str_BRequest_swift]>>],
                  [id |-> ModelGroupId, name |-> Str_Model,
                   children |-> <<[id |-> "BBBBBBBBBBBBBBBBBBBBBBB4",
                                   name |-> Str_BModel_swift]>>]>>,
     sources |-> <<sources_insert_needle,
                   [id |-> "BBBBBBBBBBBBBBBBBBBBBBB1", name |-> Str_BRequest_swift],
                   [id |-> "BBBBBBBBBBBBBBBBBBBBBBB3", name |-> Str_BModel_swift]>>]

\* the same project with one of the things update_pbxproj looks for missing
InitialManifests ==
    {GoodManifest,
     \* the three anchors
     [GoodManifest EXCEPT !.buildFiles = Tail(@)],
     [GoodManifest EXCEPT !.fileRefs = Tail(@)],
     [GoodManifest EXCEPT !.sources = Tail(@)],
     \* Networking does not list the Request group
     [GoodManifest EXCEPT !.groups[1].children = <<@[1], @[3]>>],
     \* Networking does not hold HostPath.swift
     [GoodManifest EXCEPT !.groups[1].children = Tail(@)],
     \* Networking lists the Request group, but its block is absent
     [GoodManifest EXCEPT !.groups = <<@[1], @[3]>>],
     \* the Model group has no (or an empty) children list
     [GoodManifest EXCEPT !.groups[3].children = <<>>,
                          !.buildFiles = SubSeq(@, 1, 2),
                          !.fileRefs = SubSeq(@, 1, 2),
                          !.sources = SubSeq(@, 1, 2)]}

PbxFiles == {Str_ARequest_swift, Str_Request_swift, Str_AModel_swift, Str_BRequest_swift}
PbxGroups == {Str_Request, Str_Model}

\* uuid.uuid4().hex[:24].upper(): nothing keeps two tokens apart
RandomTokens == {"CCCCCCCCCCCCCCCCCCCCCCC1", "CCCCCCCCCCCCCCCCCCCCCCC2"}

JsonNull == [t |-> "null"]
JsonBool == [t |-> "bool"]
JsonInt == [t |-> "int"]
JsonFloat == [t |-> "float"]
JsonStr == [t |-> "str"]
NoPayload == [t |-> "none"]

K_id == <<"i","d">>
K_in == <<"i","n">>
K_a_b == <<"a","-","b">>
K_Id == <<"I","d">>
K_id_nl == <<"i", "d", "\n">>

\* keys of the top-level object: plain, reserved, not an identifier, equal to
\* another up to case, and with a final newline
JsonKeys == {K_id, K_in, K_a_b, K_Id, K_id_nl}

\* JSON objects of at most n keys of Ks (distinct, in any order), values of Vs
ObjectsOf(Ks, Vs, n) ==
    {[t |-> "dict", kv |-> kv] :
        kv \in UNION {{s \in [1..k -> Ks \X Vs] :
                          \A i, j \in 1..k : i # j => s[i][1] # s[j][1]} : k \in 0..n}}

\* JSON arrays of at most n items of Vs
ListsOf(Vs, n) == {[t |-> "list", items |-> s] : s \in UNION {[1..k -> Vs] : k \in 0..n}}

InnerObjects == ObjectsOf({K_id, K_a_b}, {JsonInt}, 1)

\* the items of a top-level array: null, a scalar, an object with a key that
\* is not an identifier, an object with a plain key, and an array
ListItems ==
    {JsonNull, JsonInt,
     [t |-> "dict", kv |-> <<<<K_a_b, JsonInt>>>>],
     [t |-> "dict", kv |-> <<<<K_id, JsonInt>>>>],
     [t |-> "list", items |-> <<JsonNull, JsonFloat>>]}

JsonLists == ListsOf(ListItems, MaxItems)

\* the arrays met as the value of a key: of nulls and objects
FieldLists == ListsOf({JsonNull, [t |-> "dict", kv |-> <<<<K_a_b, JsonInt>>>>]}, MaxItems)

FieldValues == {JsonInt} \cup InnerObjects \cup FieldLists

\* what main() can hand to build_response_models as the data payload
Payloads ==
    ObjectsOf(JsonKeys, FieldValues, MaxFields)
    \cup JsonLists
    \cup {JsonBool, JsonInt, JsonFloat, JsonStr}

BaseModelName == <<"L","o","g","i","n","M","o","d","e","l">>

Methods == {<<"G","E","T">>, <<"p","o","s","t">>, <<"P","U","T">>}

\* --params, as the items between the commas
ParamStrings == {<<>>, <<<<"u","s","e","r","I","d",":","i","n","t">>, <<" ","n","a","m","e",":"," ","S","t","r","i","n","g">>>>, <<<<"u","s","e","r","I","d">>>>}

\* --response-file / --response: kind "file" is a response file (found: it
\* exists), "json" an inline literal that starts with { or [, "fields" an
\* inline field list given as the items between the commas; valid and json
\* are what json.loads makes of the text
ResponseArg(kind, found, valid, json, items) ==
    [kind |-> kind, found |-> found, valid |-> valid, json |-> json, items |-> items]

Envelope(v) == [t |-> "dict", kv |-> <<<<Str_data, v>>>>]

ResponseArgs ==
    {ResponseArg("none", FALSE, FALSE, NoPayload, <<>>),
     ResponseArg("file", FALSE, FALSE, NoPayload, <<>>),
     ResponseArg("file", TRUE, FALSE, NoPayload, <<>>),
     ResponseArg("file", TRUE, TRUE, JsonNull, <<>>),
     ResponseArg("json", TRUE, FALSE, NoPayload, <<>>),
     ResponseArg("json", TRUE, TRUE,
         Envelope([t |-> "dict", kv |-> <<
             <<K_id, JsonInt>>,
             <<K_in, [t |-> "list", items |-> <<[t |-> "dict", kv |-> <<<<K_id, JsonStr>>>>]>>]>>
         >>]), <<>>),
     ResponseArg("json", TRUE, TRUE, Envelope([t |-> "dict", kv |-> <<<<K_a_b, JsonInt>>>>]), <<>>),
     ResponseArg("json", TRUE, TRUE, [t |-> "dict", kv |-> <<<<K_id, JsonInt>>>>], <<>>),
     ResponseArg("fields", TRUE, TRUE, NoPayload, <<<<"i","d",":","i","n","t">>, <<"t","a","g","s",":","[","s","t","r","i","n","g","]">>>>),
     ResponseArg("fields", TRUE, TRUE, NoPayload, <<<<"i","t","e","m","s",":","a","r","r","a","y">>>>),
     ResponseArg("fields", TRUE, TRUE, NoPayload, <<<<"o",":","o","b","j","e","c","t">>>>),
     ResponseArg("fields", TRUE, TRUE, NoPayload, <<<<"a","-","b",":","i","n","t">>>>),
     ResponseArg("fields", TRUE, TRUE, NoPayload, <<<<"i","d">>>>)}

OutputModes == {"print", "files", "full"}

MainPaths == {P_login, P_user_id}
MainServers == {D_api_x_com, D_api_v_x_com}

\* the project a run finds: the two documents, and which of them are missing
Disk(hostPath, pbxproj, missing) ==
    [hostPath |-> hostPath, pbxproj |-> pbxproj, missing |-> missing]

InitialDisks ==
    {Disk(EmptyRegistry, GoodManifest, {}),
     Disk(AuthoredRegistry, GoodManifest, {}),
     Disk([EmptyRegistry EXCEPT !.hostMarker = FALSE], GoodManifest, {}),
     Disk([AuthoredRegistry EXCEPT !.pathMarker = FALSE], GoodManifest, {}),
     Disk(EmptyRegistry, [GoodManifest EXCEPT !.sources = Tail(@)], {}),
     Disk(AuthoredRegistry, [GoodManifest EXCEPT !.groups[1].children = <<@[1], @[3]>>], {}),
     Disk(EmptyRegistry, [GoodManifest EXCEPT !.groups[3].children = <<>>,
                                              !.buildFiles = SubSeq(@, 1, 2),
                                              !.fileRefs = SubSeq(@, 1, 2),
                                              !.sources = SubSeq(@, 1, 2)], {}),
     Disk(EmptyRegistry, GoodManifest, {"HostPath.swift"}),
     Disk(AuthoredRegistry, GoodManifest, {"project.pbxproj"})}

\* the value of the variables a specification does not use
SanIdle == input = <<>> /\ fn = "none" /\ out = <<>>
RegIdle == hostPathFile = EmptyRegistry /\ regLog = <<>>
PbxIdle == pbxprojFile = GoodManifest /\ pbxLog = <<>>
InferIdle == data_payload = NoPayload /\ inferred = [done |-> FALSE]
MainIdle ==
    /\ args = [output_mode |-> "none"]
    /\ disk0 = [hostPath |-> EmptyRegistry, pbxproj |-> GoodManifest, missing |-> {}]
    /\ artifacts = {}
    /\ main = [pc |-> "idle"]

-----------------------------------------------------------------------------
(* Specification of the registry merge: a sequence of merge calls on one   *)
(* document, each call working on the document the previous one returned.  *)

InitReg ==
    /\ hostPathFile \in InitialRegistries
    /\ regLog = <<>>
    /\ SanIdle
    /\ PbxIdle
    /\ InferIdle
    /\ MainIdle

LogEntry(op, key, r, after) ==
    [op |-> op, key |-> key, status |-> r.status,
     name |-> IF r.status = "ok" THEN r.name ELSE <<>>,
     changed |-> IF r.status = "ok" THEN r.changed ELSE FALSE,
     after |-> after]

\* the document after a merge: a merge that died leaves it as it was
AfterMerge(r) == IF r.status = "ok" THEN r.content ELSE hostPathFile

EnsureHost(domain) ==
    /\ Len(regLog) < MaxMerges
    /\ \E r \in {ensure_host_entry(hostPathFile, domain)} :
        /\ hostPathFile' = AfterMerge(r)
        /\ regLog' = Append(regLog, LogEntry("host", domain, r, AfterMerge(r)))
    /\ UNCHANGED <<sanVars, pbxVars, inferVars, mainVars>>

EnsurePath(path_value, summary) ==
    /\ Len(regLog) < MaxMerges
    /\ \E r \in {ensure_path_entry(hostPathFile, path_value, summary,
                                   path_name_default(path_value))} :
        /\ hostPathFile' = AfterMerge(r)
        /\ regLog' = Append(regLog, LogEntry("path", path_value, r, AfterMerge(r)))
    /\ UNCHANGED <<sanVars, pbxVars, inferVars, mainVars>>

NextReg ==
    \/ \E d \in Domains : EnsureHost(d)
    \/ \E p \in Paths, s \in Summaries : EnsurePath(p, s)

SpecReg == InitReg /\ [][NextReg]_vars

-----------------------------------------------------------------------------
(* Calls of update_host_path on one registry document, with the domain as  *)
(* the caller gives it; write_changes keeps its default                    *)

UpdateHostPathCall(path_value, summary, domain) ==
    /\ Len(regLog) < MaxMerges
    /\ \E r \in {update_host_path(hostPathFile, path_value, summary, domain, TRUE)} :
        /\ hostPathFile' = r.file
        /\ regLog' = Append(regLog,
               [op |-> "update", key |-> domain, status |-> r.status,
                name |-> IF r.status = "ok" THEN r.host_name ELSE <<>>,
                changed |-> IF r.status = "ok" THEN r.changed ELSE FALSE,
                after |-> r.file])
    /\ UNCHANGED <<sanVars, pbxVars, inferVars, mainVars>>

NextNorm ==
    \E d \in RawDomains, p \in {P_login, P_user_info}, s \in Summaries :
        UpdateHostPathCall(p, s, d)

SpecNorm == InitReg /\ [][NextNorm]_vars

\* the document the calls of regLog started from had the scaffold / empty blocks
\* (markers are never changed by a merge; lines are only appended)
StartedEmpty ==
    \A k \in {"host", "path"} :
        LET lines == IF k = "host" THEN hostPathFile.hosts ELSE hostPathFile.paths
        IN  Len(lines) = Cardinality({i \in 1..Len(regLog) :
                                        regLog[i].op = k /\ regLog[i].changed})

-----------------------------------------------------------------------------
(* Specification of the manifest patch: a sequence of update_pbxproj calls *)
(* on one document on disk.                                                *)

InitPbx ==
    /\ pbxprojFile \in InitialManifests
    /\ pbxLog = <<>>
    /\ SanIdle
    /\ RegIdle
    /\ InferIdle
    /\ MainIdle

UpdatePbxproj(class_filename, group_name, require_group, file_ref_id, build_file_id) ==
    /\ Len(pbxLog) < MaxPatches
    /\ \E r \in {update_pbxproj(pbxprojFile, class_filename, group_name, require_group,
                                file_ref_id, build_file_id)} :
        /\ pbxprojFile' = r.file
        /\ pbxLog' = Append(pbxLog,
               [file |-> class_filename, group |-> group_name,
                require_group |-> require_group, status |-> r.status,
                warned |-> r.warned, before |-> pbxprojFile, after |-> r.file])
    /\ UNCHANGED <<sanVars, regVars, inferVars, mainVars>>

NextPbx ==
    \E f \in PbxFiles, g \in PbxGroups, rq \in BOOLEAN,
       fr \in RandomTokens, bf \in RandomTokens : UpdatePbxproj(f, g, rq, fr, bf)

SpecPbx == InitPbx /\ [][NextPbx]_vars

-----------------------------------------------------------------------------
(* Specification of the schema inference: the data payload is drawn from  *)
(* the bounded JSON values, then one inference run is made over it.        *)

InitInfer ==
    /\ data_payload \in Payloads
    /\ inferred = [done |-> FALSE]
    /\ SanIdle
    /\ RegIdle
    /\ PbxIdle
    /\ MainIdle

BuildResponseModels ==
    /\ ~inferred.done
    /\ inferred' = [done |-> TRUE,
                    run |-> build_response_models(BaseModelName, data_payload, <<>>)]
    /\ UNCHANGED <<data_payload, sanVars, regVars, pbxVars, mainVars>>

NextInfer == BuildResponseModels

SpecInfer == InitInfer /\ [][NextInfer]_vars

-----------------------------------------------------------------------------
(* Specification of a run of main(): one action per step of main(), in    *)
(* the order of the code.  main.pc is the step to take next; "fatal" is the *)
(* exit through die(), "done" the normal return.                           *)

\* write_hostpath = args.output_mode in ("print", "files", "full")
write_hostpath_not_print(output_mode) == output_mode \in {"files", "full"}

write_hostpath(output_mode) == output_mode \in {"print", "files", "full"}

base_class == to_pascal(args.path)
class_name == base_class \o Str_Request
base_model_name == base_class \o Str_Model

\* Path.write_text: the file of that directory and name is replaced
WriteText(files, dir, name, content) ==
    {f \in files : ~(f.dir = dir /\ f.name = name)}
    \cup {[dir |-> dir, name |-> name, content |-> content]}

InitMain ==
    /\ args \in [method : Methods, path : MainPaths, summary : Summaries,
                 server : MainServers, params : ParamStrings,
                 response : ResponseArgs, output_mode : OutputModes]
    /\ disk0 \in InitialDisks
    /\ hostPathFile = disk0.hostPath
    /\ pbxprojFile = disk0.pbxproj
    /\ artifacts = {}
    /\ main = [pc |-> "start", host_name |-> <<>>, path_name |-> <<>>,
              params |-> <<>>, call |-> "", response_payload |-> NoPayload,
              response_fields |-> <<>>, models |-> <<>>, no_data |-> FALSE,
              printed |-> FALSE, model_file |-> FALSE]
    /\ regLog = <<>>
    /\ pbxLog = <<>>
    /\ SanIdle
    /\ InferIdle

Goto(pc) == [main EXCEPT !.pc = pc]

\* the two exists() checks
CheckFiles ==
    /\ main.pc = "start"
    /\ main' = IF "HostPath.swift" \in disk0.missing THEN Goto("fatal")
              ELSE IF args.output_mode = "full" /\ "project.pbxproj" \in disk0.missing
              THEN Goto("fatal")
              ELSE Goto("hostpath")
    /\ UNCHANGED <<args, disk0, artifacts, sanVars, regVars, pbxVars, inferVars>>

UpdateHostPath ==
    /\ main.pc = "hostpath"
    /\ \E r \in {update_host_path(hostPathFile, args.path, args.summary, args.server,
                                  write_hostpath(args.output_mode))} :
        /\ hostPathFile' = r.file
        /\ main' = IF r.status = "die" THEN Goto("fatal")
                   ELSE [main EXCEPT !.pc = "params", !.host_name = r.host_name,
                                     !.path_name = r.path_name]
    /\ UNCHANGED <<args, disk0, artifacts, sanVars, regLog, pbxVars, inferVars>>

ParseParams ==
    /\ main.pc = "params"
    /\ \E r \in {parse_params(args.params)} :
        main' = IF r.status = "die" THEN Goto("fatal")
                ELSE [main EXCEPT !.pc = "method", !.params = r.params]
    /\ UNCHANGED <<args, disk0, artifacts, sanVars, regVars, pbxVars, inferVars>>

BuildRequestMethod ==
    /\ main.pc = "method"
    /\ \E r \in {build_request_method(class_name, main.params, args.method)} :
        main' = IF r.status = "die" THEN Goto("fatal")
                ELSE [main EXCEPT !.pc = "response", !.call = r.call]
    /\ UNCHANGED <<args, disk0, artifacts, sanVars, regVars, pbxVars, inferVars>>

\* the reading of --response-file / --response
ParseResponse ==
    /\ main.pc = "response"
    /\ \E resp \in {args.response} :
        main' =
            CASE resp.kind = "file" ->
                    IF ~resp.found \/ ~resp.valid THEN Goto("fatal")
                    ELSE [main EXCEPT !.pc = "models",
                             !.response_payload =
                                 IF resp.json.t = "null" THEN NoPayload ELSE resp.json]
              [] resp.kind = "json" ->
                    IF ~resp.valid THEN Goto("fatal")
                    ELSE [main EXCEPT !.pc = "models", !.response_payload = resp.json]
              [] resp.kind = "fields" ->
                    Bind(parse_response_fields(resp.items), LAMBDA fields :
                        IF fields.status = "die" THEN Goto("fatal")
                        ELSE [main EXCEPT !.pc = "models",
                                          !.response_fields = fields.fields])
              [] OTHER -> Goto("models")
    /\ UNCHANGED <<args, disk0, artifacts, sanVars, regVars, pbxVars, inferVars>>

\* the step after build_response_models returned or died
ModelsBuilt(built) ==
    IF ~built.ok THEN Goto("fatal")
    ELSE [main EXCEPT !.pc = "output", !.models = built.structs]

BuildModels ==
    /\ main.pc = "models"
    /\ \E data \in {extract_data_payload(main.response_payload)} :
        main' =
            IF main.response_payload.t # "none" /\ data.t = "none"
            THEN [main EXCEPT !.pc = "output", !.no_data = TRUE]
            ELSE IF main.response_payload.t = "none" /\ main.response_fields = <<>>
            THEN Goto("output")
            ELSE ModelsBuilt(build_response_models(base_model_name,
                     IF main.response_payload.t # "none" THEN data ELSE NoPayload,
                     IF main.response_payload.t # "none" THEN <<>>
                     ELSE main.response_fields))
    /\ UNCHANGED <<args, disk0, artifacts, sanVars, regVars, pbxVars, inferVars>>

PrintSource ==
    /\ main.pc = "output"
    /\ args.output_mode = "print"
    /\ main' = [main EXCEPT !.pc = "done", !.printed = TRUE]
    /\ UNCHANGED <<args, disk0, artifacts, sanVars, regVars, pbxVars, inferVars>>

WriteRequestFile ==
    /\ main.pc = "output"
    /\ args.output_mode # "print"
    /\ artifacts' = WriteText(artifacts, "Request", class_name \o Str_swift,
           [class |-> build_request_class(class_name, main.host_name, main.path_name,
                                          main.params),
            call |-> main.call])
    /\ main' = Goto("model_file")
    /\ UNCHANGED <<args, disk0, sanVars, regVars, pbxVars, inferVars>>

WriteModelFile ==
    /\ main.pc = "model_file"
    /\ artifacts' = IF main.models # <<>>
                    THEN WriteText(artifacts, "Model", base_model_name \o Str_swift,
                                   [models |-> main.models])
                    ELSE artifacts
    /\ main' = [main EXCEPT !.pc = IF args.output_mode = "full" THEN "pbx_request"
                                 ELSE "done",
                          !.model_file = (main.models # <<>>)]
    /\ UNCHANGED <<args, disk0, sanVars, regVars, pbxVars, inferVars>>

PatchRequest(file_ref_id, build_file_id) ==
    /\ main.pc = "pbx_request"
    /\ \E r \in {update_pbxproj(pbxprojFile, class_name \o Str_swift, Str_Request, TRUE,
                                file_ref_id, build_file_id)} :
        /\ pbxprojFile' = r.file
        /\ main' = IF r.status = "die" THEN Goto("fatal")
                   ELSE IF main.model_file THEN Goto("pbx_model")
                   ELSE Goto("done")
    /\ UNCHANGED <<args, disk0, artifacts, sanVars, regVars, pbxLog, inferVars>>

PatchModel(file_ref_id, build_file_id) ==
    /\ main.pc = "pbx_model"
    /\ \E r \in {update_pbxproj(pbxprojFile, base_model_name \o Str_swift, Str_Model, TRUE,
                                file_ref_id, build_file_id)} :
        /\ pbxprojFile' = r.file
        /\ main' = IF r.status = "die" THEN Goto("fatal") ELSE Goto("done")
    /\ UNCHANGED <<args, disk0, artifacts, sanVars, regVars, pbxLog, inferVars>>

NextMain ==
    \/ CheckFiles
    \/ UpdateHostPath
    \/ ParseParams
    \/ BuildRequestMethod
    \/ ParseResponse
    \/ BuildModels
    \/ PrintSource
    \/ WriteRequestFile
    \/ WriteModelFile
    \/ \E fr \in RandomTokens, bf \in RandomTokens : PatchRequest(fr, bf)
    \/ \E fr \in RandomTokens, bf \in RandomTokens : PatchModel(fr, bf)

SpecMain == InitMain /\ [][NextMain]_vars

-----------------------------------------------------------------------------
(* Specification of the identifier sanitizer: the raw string is drawn from *)
(* the bounded strings over SanAlphabet, then one function is applied.     *)

InitSan ==
    /\ input \in SanInputs
    /\ fn = "none"
    /\ out = <<>>
    /\ RegIdle
    /\ PbxIdle
    /\ InferIdle
    /\ MainIdle

Sanitize ==
    /\ fn = "none"
    /\ fn' = "sanitize_identifier"
    /\ out' = sanitize_identifier(input)
    /\ UNCHANGED <<input, regVars, pbxVars, inferVars, mainVars>>

ToPascal ==
    /\ fn = "none"
    /\ fn' = "to_pascal"
    /\ out' = to_pascal(input)
    /\ UNCHANGED <<input, regVars, pbxVars, inferVars, mainVars>>

ToPascalType ==
    /\ fn = "none"
    /\ fn' = "to_pascal_type"
    /\ out' = to_pascal_type(input)
    /\ UNCHANGED <<input, regVars, pbxVars, inferVars, mainVars>>

\* the field / path name: to_lower_camel applied to the PascalCase name
ToFieldName ==
    /\ fn = "none"
    /\ fn' = "to_lower_camel"
    /\ out' = to_lower_camel(to_pascal(input))
    /\ UNCHANGED <<input, regVars, pbxVars, inferVars, mainVars>>

NextSan == Sanitize \/ ToPascal \/ ToPascalType \/ ToFieldName

SpecSan == InitSan /\ [][NextSan]_vars

-----------------------------------------------------------------------------
(* C1: calling the merge a second time with the same logical key on the    *)
(* document the first call returned gives changed = false, the same        *)
(* symbolic name and the same document.                                    *)
C1_MergeIdempotent ==
    \A i \in 1..(Len(regLog) - 1) :
        (/\ HasScaffold(hostPathFile)
         /\ regLog[i].status = "ok"
         /\ regLog[i + 1].op = regLog[i].op
         /\ regLog[i + 1].key = regLog[i].key)
        => /\ regLog[i + 1].status = "ok"
           /\ ~regLog[i + 1].changed
           /\ regLog[i + 1].name = regLog[i].name
           /\ regLog[i + 1].after = regLog[i].after

(* C2: merging distinct logical keys into a registry whose blocks start    *)
(* empty gives pairwise distinct symbolic names, and each logical key is   *)
(* bound to exactly one symbolic name.                                     *)
C2_NamesUnique ==
    (HasScaffold(hostPathFile) /\ StartedEmpty) =>
        \A i, j \in 1..Len(regLog) :
            (regLog[i].op = regLog[j].op) =>
                ((regLog[i].key = regLog[j].key) <=> (regLog[i].name = regLog[j].name))

-----------------------------------------------------------------------------
(* Records of one artifact in a manifest, by role *)

BuildRecords(doc, f) == {i \in 1..Len(doc.buildFiles) : doc.buildFiles[i].name = f}
FileRefRecords(doc, f) == {i \in 1..Len(doc.fileRefs) : doc.fileRefs[i].name = f}
SourceRecords(doc, f) == {i \in 1..Len(doc.sources) : doc.sources[i].name = f}
MemberRecords(doc, f) ==
    {<<g, j>> \in (1..Len(doc.groups)) \X (1..Max({0} \cup {Len(doc.groups[k].children) :
                                                     k \in 1..Len(doc.groups)})) :
        j <= Len(doc.groups[g].children) /\ doc.groups[g].children[j].name = f}

NamesIn(doc) ==
    {l.name : l \in RangeOf(doc.buildFiles)} \cup {l.name : l \in RangeOf(doc.fileRefs)}
    \cup {l.name : l \in RangeOf(doc.sources)}
    \cup UNION {{c.name : c \in RangeOf(g.children)} : g \in RangeOf(doc.groups)}

PresentInSomeRole(doc, f) ==
    \/ BuildRecords(doc, f) # {}
    \/ FileRefRecords(doc, f) # {}
    \/ SourceRecords(doc, f) # {}
    \/ MemberRecords(doc, f) # {}

AnchorsPresent(doc) ==
    /\ hostpath_build_line \in RangeOf(doc.buildFiles)
    /\ hostpath_file_ref_line \in RangeOf(doc.fileRefs)
    /\ sources_insert_needle \in RangeOf(doc.sources)

\* the target group of a patch cannot be found: Networking does not list it,
\* or its block or its children list is missing
GroupUnlocatable(doc, group_name) ==
    LET gid == find_networking_child_group_id(doc, group_name)
        blocks == find_group_block(doc, gid, group_name)
    IN  \/ gid = ""
        \/ blocks = {}
        \/ ~HasChildrenList(doc.groups[Min(blocks)])

-----------------------------------------------------------------------------
(* C3: a patch of an artifact whose file name already occurs in the        *)
(* manifest returns without writing; so a second patch with the same file  *)
(* name and group, after a first one that returned, leaves the document    *)
(* exactly as the first one left it, whatever tokens the two calls drew.   *)
C3_PatchIdempotent ==
    \A i \in 1..Len(pbxLog) :
        /\ InManifest(pbxLog[i].before, pbxLog[i].file) =>
               (pbxLog[i].status = "noop" /\ pbxLog[i].after = pbxLog[i].before)
        /\ (/\ i > 1
            /\ pbxLog[i - 1].status # "die"
            /\ pbxLog[i - 1].file = pbxLog[i].file
            /\ pbxLog[i - 1].group = pbxLog[i].group)
           => (pbxLog[i].status = "noop" /\ pbxLog[i].after = pbxLog[i - 1].after)

\* a first patch that wrote the artifact, then the same patch again
C3_Witness ==
    \E i \in 2..Len(pbxLog) :
        /\ pbxLog[i - 1].status = "ok"
        /\ pbxLog[i - 1].after # pbxLog[i - 1].before
        /\ pbxLog[i - 1].file = pbxLog[i].file
        /\ pbxLog[i - 1].group = pbxLog[i].group
        /\ pbxLog[i].status = "noop"

(* C4: a run of main that ends in a fatal condition leaves the registry    *)
(* document, the manifest document and the generated artifact files        *)
(* exactly as they were when the run started.                              *)
C4_FatalBeforeAnyWrite ==
    main.pc = "fatal" =>
        /\ hostPathFile = disk0.hostPath
        /\ pbxprojFile = disk0.pbxproj
        /\ artifacts = {}

\* the run got its host and path names from the registry step
NamesResolved == main.pc \notin {"idle", "start", "hostpath"} /\ main.host_name # <<>>

HostBound(content, domain) == \E i \in 1..Len(content.hosts) : content.hosts[i].raw = domain
PathBound(content, path_value) ==
    \E i \in 1..Len(content.paths) : content.paths[i].raw = path_value

(* C5, as stated: in the print output mode the registry document, the      *)
(* manifest document and the generated artifact files are all left         *)
(* unmodified, also when the domain or path has no existing binding.       *)
C5_PrintWritesNothing ==
    args.output_mode = "print" =>
        /\ hostPathFile = disk0.hostPath
        /\ pbxprojFile = disk0.pbxproj
        /\ artifacts = {}

(* C5, amended: in the print output mode the manifest document and the     *)
(* generated artifact files are left unmodified and the run resolves and   *)
(* prints the host and path names, but the registry document is written:   *)
(* once the names are resolved the registry on disk binds the domain and   *)
(* the path under the resolved names, and it differs from the registry the *)
(* run started with whenever the domain or the path had no binding.        *)
C5_PrintWritesRegistryOnly ==
    args.output_mode = "print" =>
        /\ pbxprojFile = disk0.pbxproj
        /\ artifacts = {}
        /\ NamesResolved =>
            /\ \E i \in 1..Len(hostPathFile.hosts) :
                   /\ hostPathFile.hosts[i].name = main.host_name
                   /\ hostPathFile.hosts[i].raw = normalize_domain(args.server)
            /\ \E i \in 1..Len(hostPathFile.paths) :
                   /\ hostPathFile.paths[i].name = main.path_name
                   /\ hostPathFile.paths[i].raw = args.path
            /\ (~HostBound(disk0.hostPath, normalize_domain(args.server))
                    \/ ~PathBound(disk0.hostPath, args.path))
                => hostPathFile # disk0.hostPath
        /\ main.pc = "done" => main.printed /\ NamesResolved

\* a print run that came to its end, printed, and changed the registry
C5_Witness ==
    /\ args.output_mode = "print"
    /\ main.pc = "done"
    /\ main.printed
    /\ ~PathBound(disk0.hostPath, args.path)
    /\ hostPathFile # disk0.hostPath

(* C6: a patch is all-or-nothing on disk: when an anchor, or the target    *)
(* group or its children list with require_group, cannot be found the call *)
(* dies; a call that dies leaves the file as it was; and the file changes  *)
(* only in a call in which every insertion step was carried out.           *)
C6_AllOrNothing ==
    /\ \A i \in 1..Len(pbxLog) :
        LET e == pbxLog[i]
            gid == find_networking_child_group_id(e.before, e.group)
        IN  /\ (/\ ~InManifest(e.before, e.file)
                /\ \/ ~AnchorsPresent(e.before)
                   \/ e.require_group /\ GroupUnlocatable(e.before, e.group))
               => e.status = "die"
            /\ e.status = "die" => e.after = e.before
            /\ e.after # e.before =>
                  /\ e.status = "ok"
                  /\ BuildRecords(e.after, e.file) # {}
                  /\ FileRefRecords(e.after, e.file) # {}
                  /\ SourceRecords(e.after, e.file) # {}
                  /\ gid # "" => MemberRecords(e.after, e.file) # {}
    /\ pbxLog # <<>> => pbxprojFile = pbxLog[Len(pbxLog)].after

\* a call that died after its first two insertions had been made in memory
C6_Witness ==
    \E i \in 1..Len(pbxLog) :
        /\ pbxLog[i].status = "die"
        /\ ~InManifest(pbxLog[i].before, pbxLog[i].file)
        /\ hostpath_build_line \in RangeOf(pbxLog[i].before.buildFiles)
        /\ hostpath_file_ref_line \in RangeOf(pbxLog[i].before.fileRefs)

(* C7: when no Networking group holding HostPath.swift lists the target    *)
(* group, a patch of a new artifact with require_group dies and writes     *)
(* nothing; without require_group (the three anchors being present) it     *)
(* warns, leaves the groups alone and writes the build-file,               *)
(* file-reference and compile-sources records.                             *)
C7_MissingGroupPolicy ==
    \A i \in 1..Len(pbxLog) :
        LET e == pbxLog[i]
        IN  (/\ find_networking_child_group_id(e.before, e.group) = ""
             /\ ~InManifest(e.before, e.file))
            => /\ e.require_group => (e.status = "die" /\ e.after = e.before)
               /\ (~e.require_group /\ AnchorsPresent(e.before)) =>
                     /\ e.status = "ok"
                     /\ e.warned
                     /\ e.after.groups = e.before.groups
                     /\ Cardinality(BuildRecords(e.after, e.file)) = 1
                     /\ Cardinality(FileRefRecords(e.after, e.file)) = 1
                     /\ Cardinality(SourceRecords(e.after, e.file)) = 1
                     /\ pbxprojFile # e.before

\* both policies met: the group missing with require_group, then without
C7_Witness ==
    \E i, j \in 1..Len(pbxLog) :
        /\ find_networking_child_group_id(pbxLog[i].before, pbxLog[i].group) = ""
        /\ pbxLog[i].require_group /\ pbxLog[i].status = "die"
        /\ find_networking_child_group_id(pbxLog[j].before, pbxLog[j].group) = ""
        /\ ~pbxLog[j].require_group /\ pbxLog[j].status = "ok" /\ pbxLog[j].warned

(* C8: after any sequence of patches of a manifest without duplicates, no  *)
(* artifact has more than one record in any role, and a patch of an        *)
(* artifact already present in some role inserts nothing.                  *)
C8_NoDuplicateRecords ==
    /\ \A f \in NamesIn(pbxprojFile) \cup PbxFiles :
        /\ Cardinality(BuildRecords(pbxprojFile, f)) <= 1
        /\ Cardinality(FileRefRecords(pbxprojFile, f)) <= 1
        /\ Cardinality(MemberRecords(pbxprojFile, f)) <= 1
        /\ Cardinality(SourceRecords(pbxprojFile, f)) <= 1
    /\ \A i \in 1..Len(pbxLog) :
        PresentInSomeRole(pbxLog[i].before, pbxLog[i].file) =>
            pbxLog[i].after = pbxLog[i].before

\* two artifacts inserted one after the other, and one of them patched
\* without its group
C8_Witness ==
    /\ Len(pbxLog) >= 2
    /\ \A i \in 1..Len(pbxLog) : pbxLog[i].status = "ok"
    /\ \E i \in 1..Len(pbxLog) : pbxLog[i].warned

-----------------------------------------------------------------------------
(* The JSON objects an inference over v visits, in the order in which      *)
(* their definitions are appended: the objects inside an object before the *)
(* object itself, and of an array only its first non-null item.            *)
RECURSIVE ObjectsPostOrder(_)
ObjectsPostOrder(v) ==
    CASE v.t = "dict" ->
            Concat([i \in 1..Len(v.kv) |-> ObjectsPostOrder(v.kv[i][2])]) \o <<v>>
      [] v.t = "list" ->
            LET nn == {i \in 1..Len(v.items) : v.items[i].t # "null"}
            IN  IF nn = {} THEN <<>> ELSE ObjectsPostOrder(v.items[Min(nn)])
      [] OTHER -> <<>>

\* the name a field of key k must carry
ExpectedFieldName(k) == IF k \in SWIFT_KEYWORDS THEN <<Backtick>> \o k \o <<Backtick>> ELSE k

\* the JSON key field j of an emitted definition decodes from
OriginalKey(def, j) ==
    IF def.codingKeys # <<>> /\ def.codingKeys[j].explicit
    THEN def.codingKeys[j].raw
    ELSE def.lets[j].prop

RecordDefinitions(run) == SelectSeq(run.structs, LAMBDA d : d.kind = "struct")

(* C10: a run aborts exactly when some key of a visited object fails the   *)
(* strict identifier check; otherwise every visited object gets one record *)
(* whose fields, in source order, are named exactly the keys (in backticks *)
(* for a reserved word) and decode from exactly the keys.                  *)
C10_NoSilentRename ==
    inferred.done =>
        LET objs == ObjectsPostOrder(data_payload)
            defs == RecordDefinitions(inferred.run)
            failing == \E i \in 1..Len(objs) : \E j \in 1..Len(objs[i].kv) :
                           ~MatchesIdentifierPattern(objs[i].kv[j][1])
        IN  /\ failing <=> ~inferred.run.ok
            /\ inferred.run.ok =>
                  /\ Len(defs) = Len(objs)
                  /\ \A i \in 1..Len(defs) :
                        /\ Len(defs[i].lets) = Len(objs[i].kv)
                        /\ \A j \in 1..Len(objs[i].kv) :
                              /\ defs[i].lets[j].prop = ExpectedFieldName(objs[i].kv[j][1])
                              /\ OriginalKey(defs[i], j) = objs[i].kv[j][1]

\* a run over an object with a reserved-word key and an object inside it
C10_Witness ==
    /\ inferred.done
    /\ inferred.run.ok
    /\ Len(RecordDefinitions(inferred.run)) >= 2
    /\ \E i \in 1..Len(data_payload.kv) : data_payload.kv[i][1] = K_in

-----------------------------------------------------------------------------
(* C9: every identifier function returns, for every input, a non-empty     *)
(* string that starts with a letter or underscore and contains only        *)
(* characters of [A-Za-z0-9_].                                             *)
C9_AlwaysValidIdentifier == fn # "none" => IsIdentifier(out)

-----------------------------------------------------------------------------
\* the names unique_struct_name returned during the run, in call order
AllocatedNames(run) == [i \in 1..Len(run.allocated) |-> run.allocated[i].name]

PairwiseDistinct(seq) ==
    \A i \in 1..Len(seq) : \A j \in 1..Len(seq) : seq[i] = seq[j] => i = j

\* name is base when base is free in used, else base followed by the
\* smallest integer from 2 on whose candidate is free in used
SmallestFreeName(base, name, used) ==
    IF base \notin used THEN name = base
    ELSE \E k \in 2..(Cardinality(used) + 2) :
            /\ name = base \o IntToStr(k)
            /\ name \notin used
            /\ \A j \in 2..(k - 1) : base \o IntToStr(j) \in used

(* C11: within one run of build_response_models over a payload, the used   *)
(* set starts empty and grows by exactly the name of each allocation; each *)
(* allocated name is its base when the base is free, else the base with    *)
(* the smallest free integer suffix from 2 on; the allocated names, and    *)
(* the names of the emitted records, are pairwise distinct.                *)
C11_RecordNamesDistinct ==
    inferred.done =>
        LET run == inferred.run
            a == run.allocated
        IN  /\ \A i \in 1..Len(a) :
                  /\ a[i].before = IF i = 1 THEN {}
                                   ELSE a[i - 1].before \cup {a[i - 1].name}
                  /\ SmallestFreeName(a[i].base, a[i].name, a[i].before)
            /\ run.used = {a[i].name : i \in 1..Len(a)}
            /\ PairwiseDistinct(AllocatedNames(run))
            /\ PairwiseDistinct([i \in 1..Len(run.structs) |-> run.structs[i].name])
            /\ \A i \in 1..Len(run.structs) : run.structs[i].name \in run.used
            /\ run.ok => Len(run.structs) = Len(a)

\* a completed run in which two objects derived the same base, so that the
\* second one was emitted under the base followed by 2
C11_Witness ==
    /\ inferred.done
    /\ inferred.run.ok
    /\ \E i \in 1..Len(inferred.run.allocated) :
          /\ inferred.run.allocated[i].base \in inferred.run.allocated[i].before
          /\ inferred.run.allocated[i].name =
                 inferred.run.allocated[i].base \o IntToStr(2)
          /\ \E j \in 1..Len(inferred.run.structs) :
                 inferred.run.structs[j].name = inferred.run.allocated[i].name

-----------------------------------------------------------------------------
\* n is domain collapsed as stated: first label and last two labels when
\* there are three or more labels, the domain itself otherwise
CollapsedTo(domain, n) ==
    LET labels == SplitDot(domain)
        count == Len(labels)
    IN  IF count >= 3
        THEN n = labels[1] \o <<".">> \o labels[count - 1] \o <<".">> \o labels[count]
        ELSE n = domain

\* the host declarations of a document whose raw value is key
BoundTo(content, key) == {i \in 1..Len(content.hosts) : content.hosts[i].raw = key}

\* normalize_domain collapses every domain as stated
C12_CollapsesLabels ==
    \A d \in RawDomains : CollapsedTo(d, normalize_domain(d))

(* C12: normalize_domain collapses every domain to its first and last two  *)
(* labels (unchanged below three labels); a call of update_host_path that  *)
(* returns has the returned host name declared for the normalized domain;  *)
(* and a later call for a domain with the same normalized form returns the *)
(* same name and leaves the declarations for that form as they were.       *)
C12_NormalizedBinding ==
    /\ C12_CollapsesLabels
    /\ \A i \in 1..Len(regLog) :
          regLog[i].status = "ok" =>
              /\ \E k \in BoundTo(regLog[i].after, normalize_domain(regLog[i].key)) :
                     regLog[i].after.hosts[k].name = regLog[i].name
              /\ \A j \in (i + 1)..Len(regLog) :
                     (/\ regLog[j].status = "ok"
                      /\ normalize_domain(regLog[j].key) = normalize_domain(regLog[i].key))
                     => /\ regLog[j].name = regLog[i].name
                        /\ BoundTo(regLog[j].after, normalize_domain(regLog[i].key))
                              = BoundTo(regLog[i].after, normalize_domain(regLog[i].key))

\* the same, for domains whose first label is not empty
C12_NamedDomainsBinding ==
    \A i \in 1..Len(regLog) :
        (regLog[i].status = "ok" /\ SplitDot(regLog[i].key)[1] # <<>>) =>
            /\ \E k \in BoundTo(regLog[i].after, normalize_domain(regLog[i].key)) :
                   regLog[i].after.hosts[k].name = regLog[i].name
            /\ \A j \in (i + 1)..Len(regLog) :
                   (/\ regLog[j].status = "ok"
                    /\ normalize_domain(regLog[j].key) = normalize_domain(regLog[i].key))
                   => /\ regLog[j].name = regLog[i].name
                      /\ BoundTo(regLog[j].after, normalize_domain(regLog[i].key))
                            = BoundTo(regLog[i].after, normalize_domain(regLog[i].key))

-----------------------------------------------------------------------------
\* the positions of the elements of an array that are not null
NonNullAt(items) == {i \in 1..Len(items) : items[i].t # "null"}

\* the value with every array cut down to its first non-null element
RECURSIVE FirstElementsOnly(_)
FirstElementsOnly(v) ==
    CASE v.t = "dict" ->
            [v EXCEPT !.kv = [i \in 1..Len(v.kv) |->
                                 <<v.kv[i][1], FirstElementsOnly(v.kv[i][2])>>]]
      [] v.t = "list" ->
            IF NonNullAt(v.items) = {} THEN [v EXCEPT !.items = <<>>]
            ELSE [v EXCEPT !.items = <<FirstElementsOnly(v.items[Min(NonNullAt(v.items))])>>]
      [] OTHER -> v

\* the number of visited values that have no type of their own: null
\* values, and arrays without a non-null element
RECURSIVE Defaulted(_)
Defaulted(v) ==
    CASE v.t = "dict" ->
            LET RECURSIVE upTo(_)
                upTo(n) == IF n = 0 THEN 0 ELSE upTo(n - 1) + Defaulted(v.kv[n][2])
            IN  upTo(Len(v.kv))
      [] v.t = "list" ->
            IF NonNullAt(v.items) = {} THEN 1
            ELSE Defaulted(v.items[Min(NonNullAt(v.items))])
      [] v.t = "null" -> 1
      [] OTHER -> 0

\* elem is the type of the first non-null element of items, String when
\* there is none; an object element is a record of the run, named after
\* parent_name and key, with the fields of that element
RECURSIVE ElementTypeOfFirst(_, _, _, _, _)
ElementTypeOfFirst(run, items, parent_name, key, elem) ==
    IF NonNullAt(items) = {} THEN elem = Str_String
    ELSE LET first == items[Min(NonNullAt(items))]
         IN  CASE first.t = "bool" -> elem = Str_Bool
               [] first.t = "int" -> elem = Str_Int
               [] first.t = "float" -> elem = Str_Double
               [] first.t = "str" -> elem = Str_String
               [] first.t = "list" ->
                     /\ Len(elem) >= 2
                     /\ elem[1] = "["
                     /\ elem[Len(elem)] = "]"
                     /\ ElementTypeOfFirst(run, first.items, parent_name,
                                           key \o Str_Item, SubSeq(elem, 2, Len(elem) - 1))
               [] first.t = "dict" ->
                     /\ \E a \in 1..Len(run.allocated) :
                           /\ run.allocated[a].name = elem
                           /\ run.allocated[a].base =
                                  parent_name \o to_pascal_type(key) \o Str_Item
                     /\ \E d \in 1..Len(run.structs) :
                           /\ run.structs[d].kind = "struct"
                           /\ run.structs[d].name = elem
                           /\ [j \in 1..Len(run.structs[d].lets) |->
                                  OriginalKey(run.structs[d], j)]
                                = [j \in 1..Len(first.kv) |-> first.kv[j][1]]

ArrayOf(elem) == <<"[">> \o elem \o <<"]">>

(* C13: the type of every array the run visits is the array of the type of *)
(* its first non-null element, and [String] when it has none; the run is   *)
(* the run over the payload with every array cut down to that element; it  *)
(* aborts only on a key of a visited object, never on an array; and it     *)
(* prints one warning for each visited array without a non-null element.   *)
C13_FirstNonNullElement ==
    inferred.done =>
        LET run == inferred.run
            objs == ObjectsPostOrder(data_payload)
            defs == RecordDefinitions(run)
        IN  /\ run = build_response_models(BaseModelName,
                                           FirstElementsOnly(data_payload), <<>>)
            /\ run.ok <=> \A i \in 1..Len(objs) : \A j \in 1..Len(objs[i].kv) :
                              MatchesIdentifierPattern(objs[i].kv[j][1])
            /\ run.ok =>
                  /\ run.warnings = Defaulted(data_payload)
                  /\ data_payload.t = "list" =>
                        \E elem \in {SubSeq(run.structs[Len(run.structs)].type, 2,
                                             Len(run.structs[Len(run.structs)].type) - 1)} :
                            /\ run.structs[Len(run.structs)].kind = "single"
                            /\ run.structs[Len(run.structs)].type = ArrayOf(elem)
                            /\ ElementTypeOfFirst(run, data_payload.items,
                                                  BaseModelName, Str_items, elem)
                  /\ \A i \in 1..Len(objs) : \A j \in 1..Len(objs[i].kv) :
                        objs[i].kv[j][2].t = "list" =>
                            \E elem \in {SubSeq(defs[i].lets[j].type, 2,
                                                 Len(defs[i].lets[j].type) - 1)} :
                                /\ defs[i].lets[j].type = ArrayOf(elem)
                                /\ ElementTypeOfFirst(run, objs[i].kv[j][2].items,
                                                      defs[i].name, objs[i].kv[j][1], elem)

\* a completed run over an array that holds, after its first non-null
\* element, an object with a key that is no identifier
C13_Witness ==
    /\ inferred.done
    /\ inferred.run.ok
    /\ data_payload.t = "list"
    /\ NonNullAt(data_payload.items) # {}
    /\ \E j \in 1..Len(data_payload.items) :
          /\ j > Min(NonNullAt(data_payload.items))
          /\ data_payload.items[j].t = "dict"
          /\ ~MatchesIdentifierPattern(data_payload.items[j].kv[1][1])

-----------------------------------------------------------------------------
\* the lines of a section other than those of artifact f
WithoutLinesOf(lines, f) == SelectSeq(lines, LAMBDA l : l.name # f)

\* the document with every line of artifact f deleted
WithoutArtifact(doc, f) ==
    [buildFiles |-> WithoutLinesOf(doc.buildFiles, f),
     fileRefs |-> WithoutLinesOf(doc.fileRefs, f),
     groups |-> [g \in 1..Len(doc.groups) |->
                    [doc.groups[g] EXCEPT !.children = WithoutLinesOf(@, f)]],
     sources |-> WithoutLinesOf(doc.sources, f)]

\* section after is section before with one line of artifact f directly
\* after the first line equal to anchor
InsertedAfterAnchor(before, after, anchor, f) ==
    \E k \in 1..Len(before) :
        /\ before[k] = anchor
        /\ \A i \in 1..(k - 1) : before[i] # anchor
        /\ Len(after) = Len(before) + 1
        /\ after[k + 1].name = f
        /\ after = InsertAt(before, k, after[k + 1])

\* groups after is groups before with one line of artifact f at the end of
\* the children of the first block of the group gid named group_name
AppendedToGroup(before, after, gid, group_name, f) ==
    \E b \in 1..Len(before) :
        /\ before[b].id = gid /\ before[b].name = group_name
        /\ \A i \in 1..(b - 1) : ~(before[i].id = gid /\ before[i].name = group_name)
        /\ Len(after) = Len(before)
        /\ Len(after[b].children) = Len(before[b].children) + 1
        /\ after[b].children[Len(after[b].children)].name = f
        /\ after = [before EXCEPT ![b].children =
                       Append(@, after[b].children[Len(after[b].children)])]

(* C14: a patch that returns after writing, for an artifact that was not   *)
(* in the manifest, puts one build-file line, one file-reference line and  *)
(* one compile-sources line directly after the line of the anchor in their *)
(* sections and one group-membership line at the end of the children of    *)
(* the target group (none when the group is not listed and not required);  *)
(* deleting the lines of the artifact gives back the document as it was.   *)
C14_OnlyInsertsLines ==
    \A i \in 1..Len(pbxLog) :
        LET e == pbxLog[i]
            gid == find_networking_child_group_id(e.before, e.group)
        IN  (e.status = "ok" /\ ~InManifest(e.before, e.file)) =>
                /\ InsertedAfterAnchor(e.before.buildFiles, e.after.buildFiles,
                                       hostpath_build_line, e.file)
                /\ InsertedAfterAnchor(e.before.fileRefs, e.after.fileRefs,
                                       hostpath_file_ref_line, e.file)
                /\ InsertedAfterAnchor(e.before.sources, e.after.sources,
                                       sources_insert_needle, e.file)
                /\ IF gid # ""
                   THEN AppendedToGroup(e.before.groups, e.after.groups, gid,
                                        e.group, e.file)
                   ELSE ~e.require_group /\ e.after.groups = e.before.groups
                /\ WithoutArtifact(e.after, e.file) = e.before

\* a patch of a new artifact into a manifest whose anchors are followed by
\* other lines and whose target group is listed
C14_Witness ==
    \E i \in 1..Len(pbxLog) :
        /\ pbxLog[i].status = "ok"
        /\ ~InManifest(pbxLog[i].before, pbxLog[i].file)
        /\ find_networking_child_group_id(pbxLog[i].before, pbxLog[i].group) # ""
        /\ Len(pbxLog[i].before.buildFiles) > 1
        /\ Len(pbxLog[i].before.fileRefs) > 1
        /\ Len(pbxLog[i].before.sources) > 1
        /\ pbxLog[i].after # pbxLog[i].before
====
